---- MODULE Spec2Model ----
(***************************************************************************)
(* Model of build.rs of tflitec-rs: the build script that fetches the      *)
(* TensorFlow Lite sources and prebuilt binaries, generates the bindings   *)
(* and emits the linker directives.                                        *)
(*                                                                         *)
(* Strings that the code takes apart or puts together (file names, archive *)
(* entry paths) are sequences of tokens; "/" and "." are tokens of their   *)
(* own, so that split, contains and format! are computed as the code       *)
(* computes them.  Directories are paths that end with the "/" token.      *)
(***************************************************************************)
EXTENDS Integers, Sequences, FiniteSets, TLC

\* ------------------------------------------------------------------ bounds
MaxBuilds == 2      \* builds run one after another in the same OUT_DIR
MaxNameLen == 3     \* longest file name given to the path constructors

\* ------------------------------------------------------- string operations
IsPrefix(p, s) == Len(p) <= Len(s) /\ SubSeq(s, 1, Len(p)) = p

\* str::contains
Contains(s, sub) ==
    \E i \in 1..(Len(s) - Len(sub) + 1) : SubSeq(s, i, i + Len(sub) - 1) = sub

FirstIdx(s, sep) ==
    IF \E i \in 1..Len(s) : s[i] = sep
    THEN CHOOSE i \in 1..Len(s) : s[i] = sep /\ \A j \in 1..(i - 1) : s[j] # sep
    ELSE 0

RECURSIVE Split(_, _)
\* str::split: the pieces between the separators, empty pieces included
Split(s, sep) ==
    LET i == FirstIdx(s, sep) IN
    IF i = 0 THEN <<s>>
    ELSE <<SubSeq(s, 1, i - 1)>> \o Split(SubSeq(s, i + 1, Len(s)), sep)

\* Iterator::skip
Skip(parts, n) == SubSeq(parts, n + 1, Len(parts))

RECURSIVE Join(_, _)
\* [&str]::join
Join(parts, sep) ==
    IF Len(parts) = 0 THEN <<>>
    ELSE IF Len(parts) = 1 THEN parts[1]
    ELSE parts[1] \o <<sep>> \o Join(Tail(parts), sep)

\* ----------------------------------------------------------- name helpers
dll_extension(o) ==
    CASE o = "macos" -> "dylib"
      [] o = "windows" -> "dll"
      [] OTHER -> "so"

dll_prefix(o) ==
    CASE o = "windows" -> <<>>
      [] OTHER -> <<"lib">>

get_lib_name(o) ==
    CASE o = "android" -> dll_prefix(o) \o <<"tensorflowlite_jni", ".", dll_extension(o)>>
      [] o = "ios" -> <<"TensorFlowLiteC", ".", "framework">>
      [] OTHER -> dll_prefix(o) \o <<"tensorflowlite_c", ".", dll_extension(o)>>

get_flex_name(o) ==
    CASE o = "android" -> dll_prefix(o) \o <<"tensorflowlite_flex_jni", ".", dll_extension(o)>>
      [] o = "ios" -> <<"TensorFlowLiteSelectTfOps", ".", "framework">>
      [] OTHER -> dll_prefix(o) \o <<"tensorflowlite_flex", ".", dll_extension(o)>>

BindingsRs == <<"bindings", ".", "rs">>
DocsLibrary == <<"libtensorflowlite_c", ".", "so">>

\* --------------------------------------------- archive-internal paths
NoPath == <<"<panic>">>

AndroidArchMismap(a) ==
    CASE a = "aarch64" -> "arm64-v8a"
      [] a = "armv7" -> "armeabi-v7a"
      [] a = "x86" -> a
      [] a = "x86_64" -> "x86-64"
      [] OTHER -> "none"

\* download_android: match arch.as_str()
AndroidArch(a) ==
    CASE a = "aarch64" -> "arm64-v8a"
      [] a = "armv7" -> "armeabi-v7a"
      [] a = "x86" -> a
      [] a = "x86_64" -> a
      [] OTHER -> "none"

\* download_ios: match arch.as_str()
IosArch(a) ==
    CASE a = "aarch64" -> "ios-arm64"
      [] OTHER -> "none"

\* download_android: format!("jni/{}/{}", arch, filename)
AndroidArchivePath(a, filename) ==
    IF AndroidArch(a) = "none" THEN NoPath
    ELSE <<"jni", "/", AndroidArch(a), "/">> \o filename

\* download_ios: filename.split(".").nth(0).unwrap()
FrameworkName(filename) == Split(filename, ".")[1]

\* download_ios: format!("Frameworks/{framework_name}.xcframework/{arch}/{filename}/")
IosArchivePath(a, filename) ==
    IF IosArch(a) = "none" THEN NoPath
    ELSE <<"Frameworks", "/">> \o FrameworkName(filename)
         \o <<".", "xcframework", "/", IosArch(a), "/">> \o filename \o <<"/">>

\* download_ios: the destination, below save_path, of an archive entry
UnpackTarget(entry) == Join(Skip(Split(entry, "/"), 4), "/")

\* download_ios: the destinations of the entries that contain the prefix
IosUnpacked(entries, prefix) ==
    {UnpackTarget(e) : e \in {x \in entries : Contains(x, prefix)}}


\* ------------------------------------------------------------- file system
\* A directory tree is the set of the paths in it, relative to its root.
IsFile(fs, p) == p \in fs
Under(fs, d) == {p \in fs : IsPrefix(d \o <<"/">>, p)}
IsDir(fs, d) == Under(fs, d) # {}
PathExists(fs, p) == IsFile(fs, p) \/ IsDir(fs, p)
RemoveAll(fs, p) == fs \ ({p} \cup Under(fs, p))

\* ------------------------------------------------------------------ inputs
TargetOs == {"android", "ios", "linux"}
TargetArch == {"aarch64", "armv7", "x86", "x86_64", "riscv64"}
DocsRsValues == {"1", "unset"}

Abis == {"arm64-v8a", "armeabi-v7a", "x86", "x86_64"}
AarEntries(filename) == {<<"jni", "/", abi, "/">> \o filename : abi \in Abis}

TarTop == <<"TensorFlowLiteC-nightly", "/">>
TarFramework(slice) ==
    <<"Frameworks", "/", "TensorFlowLiteC", ".", "xcframework", "/", slice, "/",
      "TensorFlowLiteC", ".", "framework", "/">>
CApiH == <<"Headers", "/", "c_api", ".", "h">>
TarHeader == TarTop \o TarFramework("ios-arm64") \o CApiH
TarBinary == TarTop \o TarFramework("ios-arm64") \o <<"TensorFlowLiteC">>
TarSimulator == TarTop \o TarFramework("ios-arm64_x86_64-simulator") \o <<"TensorFlowLiteC">>
TarRootHeader == TarFramework("ios-arm64") \o CApiH

Corrupt == [valid |-> FALSE, entries |-> {}]
Archive(es) == [valid |-> TRUE, entries |-> es]

\* what the server may deliver for the URL the build asks for
Contents(o) ==
    IF o = "ios"
    THEN {Corrupt, Archive({}), Archive({TarSimulator}),
          Archive({TarBinary, TarSimulator}),
          Archive({TarHeader, TarBinary, TarSimulator}),
          Archive({TarRootHeader})}
    ELSE {Corrupt, Archive({}),
          Archive(AarEntries(get_lib_name(o))),
          Archive(AarEntries(get_flex_name(o))),
          Archive({<<"jni", "/", "arm64-v8a", "/">> \o get_lib_name(o)})}

\* ------------------------------------------------------------------- state
VARIABLES
    os,             \* CARGO_CFG_TARGET_OS
    arch,           \* CARGO_CFG_TARGET_ARCH
    flex,           \* feature "flex_delegate"
    docsZip,        \* the files in build-res/docsrs_res.zip
    docs_rs,        \* DOCS_RS of the running build
    builds,         \* builds started so far
    srcDir,         \* tf_src_path: "absent", "incomplete" or "cloned"
    marker,         \* tf_src_path/.complete_clone exists
    archiveFile,    \* the downloaded archive under save_path
    content,        \* what the archive file holds once complete
    pkgs,           \* save_path, without the archive file
    out,            \* OUT_DIR, without tf_src_path
    pc,             \* position of the running build
    steps,          \* the steps the running build has executed
    failed,         \* the step that panicked, or "none"
    outcome,        \* result of the last step
    netCalls,       \* network calls the running build has started
    link,           \* cargo directives the running build has printed
    cur,            \* download_android is fetching "lib" or "flex"
    archivePath,    \* the archive-internal path constructed
    nMatched,       \* tar entries that matched the prefix, -1 before
    pin,            \* inputs of the path constructors (path specification)
    ppath           \* their result

cfgVars == <<os, arch, flex, docsZip>>
fsVars == <<srcDir, marker, archiveFile, content, pkgs, out>>
runVars == <<docs_rs, builds, pc, steps, failed, outcome, netCalls, link, cur,
             archivePath, nMatched>>
pathVars == <<pin, ppath>>
vars == <<cfgVars, fsVars, runVars, pathVars>>

NoInput == [os |-> "none", arch |-> "none", filename |-> <<>>]

FreshRun ==
    /\ pc = "main"
    /\ steps = <<>>
    /\ failed = "none"
    /\ outcome = "none"
    /\ netCalls = {}
    /\ link = {}
    /\ cur = "lib"
    /\ archivePath = NoPath
    /\ nMatched = -1

Init ==
    /\ os \in TargetOs
    /\ arch \in TargetArch
    /\ flex \in BOOLEAN
    /\ docsZip \in SUBSET {DocsLibrary, BindingsRs}
    /\ docs_rs \in DocsRsValues
    /\ builds = 1
    /\ srcDir = "absent"
    /\ marker = FALSE
    /\ archiveFile = "absent"
    /\ content = Corrupt
    /\ pkgs = {}
    /\ out = {}
    /\ FreshRun
    /\ pin = NoInput
    /\ ppath = NoPath

\* ---------------------------------------------------------------- stepping
OnResultContinue(ok, next) == next

\* unwrap / expect / panic!: the build goes on only when the step succeeded
OnResult(ok, next) == IF ok THEN next ELSE "aborted"

Step(name, r, ok, next) ==
    /\ steps' = Append(steps, name)
    /\ outcome' = r
    /\ failed' = IF ok THEN failed ELSE name
    /\ pc' = OnResult(ok, next)

CurName == IF cur = "lib" THEN get_lib_name(os) ELSE get_flex_name(os)


\* -------------------------------------------------------------------- main
OsSupportedAny(o) == TRUE

\* main: match os.as_str()
OsSupported(o) == o \in {"android", "ios"}

LinkDirectives(o) ==
    CASE o = "android" ->
           {"rustc-link-search=native", "rustc-link-lib=dylib=tensorflowlite_jni"}
      [] o = "ios" ->
           {"rustc-link-search=framework", "rustc-link-lib=framework=TensorFlowLiteC",
            "rustc-link-lib=c++"}
      [] OTHER -> {}

DocsRsModeNever(v) == FALSE

\* main: env::var("DOCS_RS") == Ok(String::from("1"))
DocsRsMode(v) == v = "1"

\* main, up to the choice of the branch to run
main_os ==
    /\ pc = "main"
    /\ link' = IF OsSupported(os) THEN LinkDirectives(os) ELSE link
    /\ Step("main_os", os, OsSupported(os),
            IF DocsRsMode(docs_rs) THEN "docsrs"
            ELSE IF os # "ios" THEN "prepare" ELSE "install")
    /\ UNCHANGED <<cfgVars, fsVars, pathVars, docs_rs, builds, netCalls, cur,
                   archivePath, nMatched>>

\* ------------------------------------------------------ prepare_for_docsrs
DocsrsOkLibraryOnly(status_ok, library_exists, bindings_exist) ==
    status_ok /\ library_exists

\* prepare_for_docsrs: the condition under which it does not panic
DocsrsOk(status_ok, library_exists, bindings_exist) ==
    status_ok /\ library_exists /\ bindings_exist

prepare_for_docsrs ==
    /\ pc = "docsrs"
    /\ \E r \in {"noexec", "nonzero", "success"} : \E ex \in SUBSET docsZip :
         /\ r = "success" => ex = docsZip
         /\ r = "noexec" => ex = {}
         /\ out' = out \cup ex
         /\ Step("unzip", r,
                 DocsrsOk(r = "success", IsFile(out', DocsLibrary), IsFile(out', BindingsRs)),
                 "done")
    /\ UNCHANGED <<cfgVars, pathVars, srcDir, marker, archiveFile, content, pkgs,
                   docs_rs, builds, netCalls, link, cur, archivePath, nMatched>>

\* ----------------------------------------------- prepare_tensorflow_source
NeedsCloneAlways(hint_exists) == TRUE

\* prepare_tensorflow_source: !complete_clone_hint_file.exists()
NeedsClone(hint_exists) == ~hint_exists

\* the marker check and the removal of what an earlier clone left
prepare_tensorflow_source ==
    /\ pc = "prepare"
    /\ IF ~NeedsClone(marker)
       THEN /\ Step("prepare", "hint", TRUE, "install")
            /\ UNCHANGED fsVars
       ELSE IF srcDir = "absent"
       THEN /\ Step("prepare", "fresh", TRUE, "clone")
            /\ UNCHANGED fsVars
       ELSE \E r \in {"removed", "remove_failed"} :
            /\ Step("prepare", r, r = "removed", "clone")
            /\ IF r = "removed"
               THEN /\ srcDir' = "absent"
                    /\ marker' = FALSE
                    /\ archiveFile' = "absent"
                    /\ content' = Corrupt
                    /\ pkgs' = {}
               ELSE /\ srcDir' = "incomplete"
                    /\ marker' \in {marker, FALSE}
                    /\ UNCHANGED <<archiveFile, content, pkgs>>
            /\ UNCHANGED out
    /\ UNCHANGED <<cfgVars, pathVars, docs_rs, builds, netCalls, link, cur,
                   archivePath, nMatched>>

CloneOkAlways(r) == TRUE

\* prepare_tensorflow_source: git.status().expect(..).success()
CloneOk(r) == r = "success"

git_clone ==
    /\ pc = "clone"
    /\ \E r \in {"noexec", "failed", "success"} : \E left \in {"absent", "incomplete"} :
         /\ netCalls' = IF r = "noexec" THEN netCalls ELSE netCalls \cup {"clone"}
         /\ srcDir' = CASE r = "success" -> "cloned"
                        [] r = "failed" -> left
                        [] OTHER -> srcDir
         /\ Step("clone", r, CloneOk(r), "hint")
    /\ UNCHANGED <<cfgVars, pathVars, marker, archiveFile, content, pkgs, out,
                   docs_rs, builds, link, cur, archivePath, nMatched>>

\* prepare_tensorflow_source: File::create(complete_clone_hint_file)
create_hint_file ==
    /\ pc = "hint"
    /\ \E r \in {"created", "create_failed"} :
         /\ r = "created" => srcDir # "absent"
         /\ marker' = IF r = "created" THEN TRUE ELSE marker
         /\ Step("hint", r, r = "created", "install")
    /\ UNCHANGED <<cfgVars, pathVars, srcDir, archiveFile, content, pkgs, out,
                   docs_rs, builds, netCalls, link, cur, archivePath, nMatched>>


\* ---------------------------------------------------- download_and_install
\* download_and_install: match target_os().as_str()
download_and_install ==
    /\ pc = "install"
    /\ Step("install", os, os \in {"android", "ios"}, "mkdir")
    /\ UNCHANGED <<cfgVars, fsVars, pathVars, docs_rs, builds, netCalls, link, cur,
                   archivePath, nMatched>>

\* download_android / download_ios: create_dir_all(&save_path)
create_save_path ==
    /\ pc = "mkdir"
    /\ \E r \in {"created", "create_failed"} :
         /\ srcDir' = IF r = "created" /\ srcDir = "absent" THEN "incomplete" ELSE srcDir
         /\ Step("mkdir", r, r = "created", "dl_create")
    /\ UNCHANGED <<cfgVars, pathVars, marker, archiveFile, content, pkgs, out,
                   docs_rs, builds, netCalls, link, cur, archivePath, nMatched>>

\* download_file: File::create(path)
download_file_create ==
    /\ pc = "dl_create"
    /\ \E r \in {"created", "create_failed"} :
         /\ archiveFile' = IF r = "created" THEN "empty" ELSE archiveFile
         /\ content' = IF r = "created" THEN Corrupt ELSE content
         /\ Step("dl_create", r, r = "created", "perform")
    /\ UNCHANGED <<cfgVars, pathVars, srcDir, marker, pkgs, out,
                   docs_rs, builds, netCalls, link, cur, archivePath, nMatched>>

\* download_file: the archive file once easy.perform() has returned or
\* unwound.  "error": perform returned Err and the closure removed the file;
\* "error_rmfail": the closure's remove_file failed; "write_panic": the
\* unwrap in the write callback panicked, which unwinds out of perform
\* without running the closure.
FileAfterPerform(r) ==
    CASE r = "ok" -> "complete"
      [] r = "error" -> "absent"
      [] OTHER -> "partial"

download_file_perform ==
    /\ pc = "perform"
    /\ \E r \in {"ok", "error", "error_rmfail", "write_panic"} : \E c \in Contents(os) :
         /\ netCalls' = netCalls \cup {"download"}
         /\ archiveFile' = FileAfterPerform(r)
         /\ content' = IF r = "ok" THEN c ELSE Corrupt
         /\ Step("download", r, r = "ok", IF os = "android" THEN "open" ELSE "arch")
    /\ UNCHANGED <<cfgVars, pathVars, srcDir, marker, pkgs, out,
                   docs_rs, builds, link, cur, archivePath, nMatched>>

\* download_android / download_ios: fs::File::open of the archive
open_archive ==
    /\ pc = "open"
    /\ \E r \in {"opened", "open_failed"} :
         /\ r = "opened" => archiveFile # "absent"
         /\ Step("open", r, r = "opened", IF os = "android" THEN "arch" ELSE "untar")
    /\ UNCHANGED <<cfgVars, fsVars, pathVars, docs_rs, builds, netCalls, link, cur,
                   archivePath, nMatched>>

\* download_android / download_ios: match arch.as_str() and the path built from it
arch_match ==
    /\ pc = "arch"
    /\ archivePath' = IF os = "android" THEN AndroidArchivePath(arch, CurName)
                      ELSE IosArchivePath(arch, CurName)
    /\ Step("arch", arch, archivePath' # NoPath, IF os = "android" THEN "zip" ELSE "open")
    /\ UNCHANGED <<cfgVars, fsVars, pathVars, docs_rs, builds, netCalls, link, cur,
                   nMatched>>

\* download_android: zip::ZipArchive::new(file)
zip_open ==
    /\ pc = "zip"
    /\ LET ok == content.valid /\ archiveFile = "complete" IN
       Step("zip", IF ok THEN "zip" ELSE "not_a_zip", ok, "by_name")
    /\ UNCHANGED <<cfgVars, fsVars, pathVars, docs_rs, builds, netCalls, link, cur,
                   archivePath, nMatched>>

\* download_android: archive.by_name(..) and read_to_end
zip_by_name ==
    /\ pc = "by_name"
    /\ \E r \in {"read", "no_entry", "read_failed"} :
         /\ r = "no_entry" <=> archivePath \notin content.entries
         /\ Step("by_name", r, r = "read", "write")
    /\ UNCHANGED <<cfgVars, fsVars, pathVars, docs_rs, builds, netCalls, link, cur,
                   archivePath, nMatched>>

\* download_android: File::create(&file_path) and write_all; then, back in
\* download_and_install, the second download_android under "flex_delegate"
write_library ==
    /\ pc = "write"
    /\ \E r \in {"written", "create_failed", "write_failed"} :
         /\ pkgs' = IF r = "create_failed" THEN pkgs ELSE pkgs \cup {CurName}
         /\ cur' = IF r = "written" /\ flex /\ cur = "lib" THEN "flex" ELSE cur
         /\ Step("write", r, r = "written",
                 IF flex /\ cur = "lib" THEN "mkdir" ELSE "copy")
    /\ UNCHANGED <<cfgVars, pathVars, srcDir, marker, archiveFile, content, out,
                   docs_rs, builds, netCalls, link, archivePath, nMatched>>

\* download_ios: archive.entries() and the unpacking of the matching entries
untar ==
    /\ pc = "untar"
    /\ LET matching == {e \in content.entries : Contains(e, archivePath)}
           targets == IosUnpacked(content.entries, archivePath) \ {<<>>}
       IN \E r \in {"unpacked", "unpack_failed"} : \E done \in SUBSET targets :
            /\ r = "unpacked" => content.valid /\ archiveFile = "complete" /\ done = targets
            /\ pkgs' = pkgs \cup done
            /\ nMatched' = Cardinality(matching)
            /\ Step("untar", r, r = "unpacked", "copy")
    /\ UNCHANGED <<cfgVars, pathVars, srcDir, marker, archiveFile, content, out,
                   docs_rs, builds, netCalls, link, cur, archivePath>>

CopyFileOkAlways(fs, src) == TRUE

\* copy_or_overwrite: std::fs::copy needs its source file
CopyFileOk(fs, src) == IsFile(fs, src)

\* copy_or_overwrite(save_path/libname, OUT_DIR/libname).  The second copy,
\* of the flex library, stands under cfg(all(android, ..)); no build sets the
\* cfg name android, so that block is never compiled in.
copy_or_overwrite ==
    /\ pc = "copy"
    /\ LET name == get_lib_name(os)
           cleared == RemoveAll(out, name)
           srcOk == IsDir(pkgs, name) \/ CopyFileOk(pkgs, name)
       IN \E r \in {"copied", "remove_failed", "copy_failed", "no_source"} :
            /\ r = "remove_failed" => PathExists(out, name)
            /\ r \in {"copied", "copy_failed"} => srcOk
            /\ r = "no_source" => ~srcOk
            /\ out' = CASE r = "remove_failed" -> out
                        [] r \in {"copy_failed", "no_source"} -> cleared
                        [] OTHER -> IF IsDir(pkgs, name)
                                    THEN cleared \cup Under(pkgs, name)
                                                 \cup {name \o <<"/">>}
                                    ELSE cleared \cup {name}
            /\ Step("copy", r, r = "copied", "bindgen")
    /\ UNCHANGED <<cfgVars, pathVars, srcDir, marker, archiveFile, content, pkgs,
                   docs_rs, builds, netCalls, link, cur, archivePath, nMatched>>

\* generate_bindings / generate_binding_ios: the header handed to bindgen
\* (c_api.h; the xnnpack header of feature "xnnpack" lies next to it)
HeaderExists ==
    IF os = "ios" THEN IsFile(out, get_lib_name(os) \o <<"/">> \o CApiH)
    ELSE srcDir = "cloned"

\* generate_bindings / generate_binding_ios: builder.generate()
bindgen_generate ==
    /\ pc = "bindgen"
    /\ \E r \in {"generated", "generate_failed"} :
         /\ r = "generated" => HeaderExists
         /\ Step("bindgen", r, r = "generated", "write_bindings")
    /\ UNCHANGED <<cfgVars, fsVars, pathVars, docs_rs, builds, netCalls, link, cur,
                   archivePath, nMatched>>

\* generate_bindings / generate_binding_ios: bindings.write_to_file(..)
write_bindings ==
    /\ pc = "write_bindings"
    /\ \E r \in {"written", "write_failed"} :
         /\ out' = IF r = "written" THEN out \cup {BindingsRs} ELSE out
         /\ Step("write_bindings", r, r = "written", "done")
    /\ UNCHANGED <<cfgVars, pathVars, srcDir, marker, archiveFile, content, pkgs,
                   docs_rs, builds, netCalls, link, cur, archivePath, nMatched>>

\* ------------------------------------------------------------- environment
\* the build is killed between two steps
interrupt ==
    /\ pc \notin {"done", "aborted"}
    /\ pc' = "aborted"
    /\ outcome' = "killed"
    /\ UNCHANGED <<cfgVars, fsVars, pathVars, docs_rs, builds, steps, failed,
                   netCalls, link, cur, archivePath, nMatched>>

\* cargo runs the build script again, in the same OUT_DIR
rebuild ==
    /\ pc \in {"done", "aborted"}
    /\ builds < MaxBuilds
    /\ builds' = builds + 1
    /\ docs_rs' \in DocsRsValues
    /\ pc' = "main"
    /\ steps' = <<>>
    /\ failed' = "none"
    /\ outcome' = "none"
    /\ netCalls' = {}
    /\ link' = {}
    /\ cur' = "lib"
    /\ archivePath' = NoPath
    /\ nMatched' = -1
    /\ UNCHANGED <<cfgVars, fsVars, pathVars>>

Next ==
    \/ main_os
    \/ prepare_for_docsrs
    \/ prepare_tensorflow_source
    \/ git_clone
    \/ create_hint_file
    \/ download_and_install
    \/ create_save_path
    \/ download_file_create
    \/ download_file_perform
    \/ open_archive
    \/ arch_match
    \/ zip_open
    \/ zip_by_name
    \/ write_library
    \/ untar
    \/ copy_or_overwrite
    \/ bindgen_generate
    \/ write_bindings
    \/ interrupt
    \/ rebuild

Spec == Init /\ [][Next]_vars


\* ------------------------------------- the path constructors on their own
Unset == <<"<unset>">>

RECURSIVE NamesUpTo(_)
NamesUpTo(n) ==
    IF n = 0 THEN {<<>>}
    ELSE LET shorter == NamesUpTo(n - 1) IN
         shorter \cup {Append(f, t) : f \in shorter, t \in {"a", "."}}

PathInputs ==
    [os : {"android", "ios"},
     arch : TargetArch,
     filename : NamesUpTo(MaxNameLen)
                \cup {get_lib_name(o) : o \in {"android", "ios"}}
                \cup {get_flex_name(o) : o \in {"android", "ios"}}]

PathInit ==
    /\ pin \in PathInputs
    /\ ppath = Unset
    /\ os = pin.os
    /\ arch = pin.arch
    /\ flex = FALSE
    /\ docsZip = {}
    /\ docs_rs = "unset"
    /\ builds = 1
    /\ srcDir = "absent"
    /\ marker = FALSE
    /\ archiveFile = "absent"
    /\ content = Corrupt
    /\ pkgs = {}
    /\ out = {}
    /\ FreshRun

\* download_android applied to (arch, filename)
android_path ==
    /\ pin.os = "android"
    /\ ppath = Unset
    /\ ppath' = AndroidArchivePath(pin.arch, pin.filename)
    /\ UNCHANGED <<cfgVars, fsVars, runVars, pin>>

\* download_ios applied to (arch, filename)
ios_path ==
    /\ pin.os = "ios"
    /\ ppath = Unset
    /\ ppath' = IosArchivePath(pin.arch, pin.filename)
    /\ UNCHANGED <<cfgVars, fsVars, runVars, pin>>

PathNext == android_path \/ ios_path

SpecPath == PathInit /\ [][PathNext]_vars


\* ============================================================== properties
LastStep == IF steps = <<>> THEN "none" ELSE steps[Len(steps)]
Ran(name) == \E i \in 1..Len(steps) : steps[i] = name

\* C1: on a target OS other than android and ios, in either mode, the build
\* aborts in main's match: no linker directive is printed, no network call
\* is started and no step other than the match runs.
UnsupportedOsAbortsFirst ==
    os \notin {"android", "ios"} =>
        /\ link = {}
        /\ netCalls = {}
        /\ pc \in {"main", "aborted"}
        /\ \A i \in 1..Len(steps) : steps[i] = "main_os"

UnsupportedOsAbortedInDocsMode ==
    os = "linux" /\ docs_rs = "1" /\ pc = "aborted" /\ failed = "main_os"

\* C2: when a non-documentation build on android or ios aborts because the
\* target architecture is not supported, no network call (git clone,
\* download) has been started.
ArchAbortBeforeNetwork ==
    (docs_rs # "1" /\ os \in {"android", "ios"} /\ failed = "arch") => netCalls = {}

\* C3: when download_file fails, on a network error or on a failure to write
\* the received data, no file is left at the destination path.
DownloadFailureLeavesNoFile ==
    (failed = "download" /\ outcome \in {"error", "write_panic"})
        => archiveFile = "absent"

\* C4: once the marker .complete_clone exists, no step starts a git clone,
\* changes the source directory or removes the marker.
MarkerSkipsClone ==
    [][marker => /\ marker'
                 /\ srcDir' = srcDir
                 /\ pc' # "clone"
                 /\ ("clone" \in netCalls' => "clone" \in netCalls)]_vars

SecondBuildSkippedClone ==
    /\ builds = 2
    /\ marker
    /\ pc = "install"
    /\ LastStep = "prepare"
    /\ netCalls = {}

UpToFirstDot(f) ==
    LET n == CHOOSE k \in 0..Len(f) :
                 /\ \A j \in 1..k : f[j] # "."
                 /\ k = Len(f) \/ f[k + 1] = "."
    IN SubSeq(f, 1, n)

ArchivePathConvention ==
    ppath # Unset =>
        LET f == pin.filename
            a == pin.arch
        IN CASE pin.os = "android" /\ a = "aarch64" ->
                  ppath = <<"jni", "/", "arm64-v8a", "/">> \o f
             [] pin.os = "android" /\ a = "armv7" ->
                  ppath = <<"jni", "/", "armeabi-v7a", "/">> \o f
             [] pin.os = "android" /\ a = "x86" ->
                  ppath = <<"jni", "/", "x86", "/">> \o f
             [] pin.os = "android" /\ a = "x86_64" ->
                  ppath = <<"jni", "/", "x86_64", "/">> \o f
             [] pin.os = "ios" /\ a = "aarch64" ->
                  ppath = <<"Frameworks", "/">> \o UpToFirstDot(f)
                          \o <<".", "xcframework", "/", "ios-arm64", "/">>
                          \o f \o <<"/">>
             [] OTHER -> ppath = NoPath

IosPathOfTwoDotName ==
    /\ pin.os = "ios"
    /\ pin.arch = "aarch64"
    /\ pin.filename = <<"a", ".", ".">>
    /\ ppath # Unset
    /\ ppath # NoPath

\* C7 as stated: on ios, when no tar entry matched the prefix, the build does
\* not abort in the binary-fetch step for want of the framework.
IosNoMatchDoesNotAbort ==
    (os = "ios" /\ nMatched = 0) => ~(failed = "copy" /\ outcome = "no_source")

\* C7 as amended: on ios, when no tar entry matched, download_ios has returned
\* and copy_or_overwrite aborts the build unless save_path still holds a
\* framework of an earlier build; then that framework is what is copied.
IosNoMatchAbortsAtCopy ==
    [][(pc = "copy" /\ os = "ios" /\ nMatched = 0) =>
          /\ ~PathExists(pkgs, get_lib_name(os)) => pc' = "aborted"
          /\ pc' = "bindgen" => /\ IsDir(pkgs, get_lib_name(os))
                                /\ Under(pkgs, get_lib_name(os)) \subseteq out']_vars

IosNoMatchAbortedAtCopy ==
    /\ os = "ios"
    /\ nMatched = 0
    /\ pc = "aborted"
    /\ failed = "copy"
    /\ outcome = "no_source"

\* C8: a build that completes, in either mode, leaves in the output directory
\* the library under the name get_lib_name returns and bindings.rs.
SuccessLeavesArtifacts ==
    pc = "done" => /\ PathExists(out, get_lib_name(os))
                   /\ IsFile(out, BindingsRs)

\* C9: the marker exists only while the source directory holds a completed
\* clone; a clone starts only on an absent directory without marker, and a
\* failed clone leaves no marker.
MarkerOnlyAfterClone ==
    /\ marker => srcDir = "cloned"
    /\ pc = "clone" => srcDir = "absent" /\ ~marker
    /\ failed = "clone" => ~marker

ClonedAfterFailedBuild ==
    /\ builds = 2
    /\ marker
    /\ "clone" \in netCalls
    /\ srcDir = "cloned"

\* C10: once a step has failed the build is aborted and the failed step is the
\* last one that ran.
FailureOutcomes ==
    {"noexec", "nonzero", "remove_failed", "failed", "create_failed", "error",
     "error_rmfail", "write_panic", "open_failed", "not_a_zip", "no_entry",
     "read_failed", "write_failed", "unpack_failed", "copy_failed", "no_source",
     "generate_failed"}

====
